---- MODULE Spec2Model ----
(***************************************************************************)
(* pumpkin-management: the unverify cog (src/unverify), the voice cog      *)
(* (src/voice), the link table of the sync cog (src/sync) and the mapping  *)
(* table of the verify cog (src/verify) as state machines.                 *)
(*                                                                         *)
(* One guild is modelled.  The chat platform is the environment: roles and *)
(* channels can be deleted, members can leave, the guild can drop out of   *)
(* the client's cache, and every mutation the bot asks for can be refused  *)
(* (Forbidden).  Coroutines are cut at their suspension points; between    *)
(* two steps of one coroutine any other handler may run.                   *)
(***************************************************************************)
EXTENDS Integers, Sequences, FiniteSets, TLC

\* ------------------------------------------------------------------ bounds
MaxMember == 1
MaxRole == 2
MaxChannel == 2
\* The clock runs from 0 to MaxTicks * SETTLE.
MaxTicks == 2
MaxItems == 2
MaxHandlers == 2
\* Third-party events outstanding at a time: deleted roles and channels,
\* roles and channels the bot has lost the permission to change, members that
\* have left, the guild being out of the cache.
MaxFaults == 1
\* Voice channels the category gets in a run, and members in one channel.
MaxVoice == 3
MaxOccupants == 1
\* Guilds the bot is in, for the links of the sync cog.
MaxGuild == 3
\* Rows the mgmt_verify_mapping table gets.
MaxMapping == 3

Members == 1..MaxMember
Roles == 1..MaxRole
\* The role `unverify set` stores in GuildConfig: an id of its own.
UnverifyRole == MaxRole + 1
AllRoles == Roles \cup {UnverifyRole}
Channels == 1..MaxChannel
Handlers == 1..MaxHandlers
VoiceIds == 1..MaxVoice
Guilds == 1..MaxGuild
\* The high bitrates `voice bitrate` has stored.
Bitrates == {96000}
\* What starts a sync pass: the sync_channels task, on_voice_state_update, the
\* commands voice category and voice bitrate.
Contexts == {"timer", "event", "command"}
\* The bitrates `voice bitrate` is called with.
BitrateArgs == {64000, 96000, 384000}

\* ------------------------------------------------------- program constants
\* asyncio.sleep(2) between role removal and channel processing
SETTLE == 2
\* timedelta(seconds=30): the reverifier's lookahead
LOOKAHEAD == 30
\* timedelta(hours=1): the reverifier's staleness threshold, in seconds
STALE == 3600

\* A last_check that is NULL / GuildConfig.get returning None
NULL == -1
NoConfig == 0

\* The clock's values: it is read every SETTLE seconds.
MaxTime == MaxTicks * SETTLE
Times == {t * SETTLE : t \in 0..MaxTicks}

VARIABLES
  now,       \* datetime.now(), in seconds
  guildUp,   \* bot.get_guild(guild_id) resolves
  present,   \* members guild.get_member / guild.fetch_member resolve
  roles,     \* guild.roles: ids of the roles that exist
  channels,  \* guild.channels: ids of the non-category channels that exist
  denied,    \* what the platform refuses (Forbidden): [roles, channels]
  held,      \* member.roles: [Members -> SUBSET AllRoles]
  overw,     \* channel.overwrites_for(member).read_messages
  config,    \* the guild's GuildConfig row: NoConfig or its unverify_role_id
  items,     \* unverify_table: the UnverifyItem rows, in idx order
  cmd,       \* the command handlers in flight
  reply,     \* how the last command ended
  rv,        \* the _reverify_user coroutine
  queue,     \* the items left in the reverifier's for loop
  loop,      \* the reverifier task: "ready" or "failed"
  voice_settings, \* mgmt_voice_settings: the VoiceSettings rows
  category,  \* the configured category exists in the guild
  voice,     \* the voice channels of the category, by id
  nextId,    \* the id the platform gives the next channel it creates
  nodelete,  \* the channels whose deletion the platform refuses
  locked,    \* mgmt_voice_locked: the LockedChannels rows
  sync,      \* the sync passes under way, by what started them
  bitrate_limit, \* guild.bitrate_limit
  overwrites,    \* category.overwrites and channel.overwrites, by role
  answer,    \* how the last command of the voice cog ended
  links,     \* mgmt_sync_links: the Link rows
  link_result, \* how the last call of Link.add / Link.remove ended
  mapping,   \* mgmt_verify_mapping: the VerifyMapping rows of the guild
  mapped     \* the last call of VerifyMapping.map and what it returned

envVars == <<guildUp, present, roles, channels, denied>>
memVars == <<held, overw>>
dbVars == <<config, items>>
loopVars == <<rv, queue, loop>>
cmdVars == <<cmd, reply>>
voiceVars == <<voice_settings, category, voice, nextId, nodelete, locked, sync,
               bitrate_limit, overwrites, answer>>
syncVars == <<links, link_result>>
verifyVars == <<mapping, mapped>>
\* What the handlers of the channel pool leave alone.
poolFrame == <<now, guildUp, present, roles, channels, denied, held, overw,
               config, items, cmd, reply, rv, queue, loop, links, link_result,
               mapping, mapped, bitrate_limit, answer, voice_settings,
               category>>
unverifyVars == <<now, envVars, memVars, dbVars, cmdVars, loopVars>>
vars == <<now, guildUp, present, roles, channels, denied, held, overw, config, items,
          cmd, reply, rv, queue, loop, voice_settings, category, voice, nextId,
          nodelete, locked, sync, bitrate_limit, overwrites, answer, links,
          link_result, mapping, mapped>>

\* ------------------------------------------------------------------ helpers
Min(S) == CHOOSE x \in S : \A y \in S : x <= y

RECURSIVE SeqOf(_)
\* A set of ids as the list the client hands out (ascending).
SeqOf(S) == IF S = {} THEN <<>> ELSE <<Min(S)>> \o SeqOf(S \ {Min(S)})

Range(s) == {s[k] : k \in DOMAIN s}

\* The guild's permission setup, as the client computes it without a member
\* overwrite: channel c is readable through role c (and through no other).
BaseRead(c, m) == c \in held[m] \cap roles

\* channel.permissions_for(member).read_messages
CanRead(c, m) ==
  IF overw[c][m] = "allow" THEN TRUE
  ELSE IF overw[c][m] = "deny" THEN FALSE
  ELSE BaseRead(c, m)

\* The set C of a member: the channels it can read.
Readable(m) == {c \in channels : CanRead(c, m)}

IdleCmd == [pc |-> "idle", member |-> 0, end_time |-> 0, removed |-> <<>>,
            keep |-> {}]
NoSnap == [held |-> <<>>, overw |-> <<>>]
IdleRv == [pc |-> "idle", idx |-> 0, wake |-> 0, caller |-> "none",
           out |-> "none", snap |-> NoSnap]

\* No VoiceSettings row; a row has category_id and high_res_bitrate, 0 for
\* a column that is NULL.
NoSettings == [row |-> FALSE, category_id |-> 0, high_res_bitrate |-> 0]
\* The guild's id, the primary key of its VoiceSettings row.
GuildId == 1
\* VoiceSettings.get(guild): the guild's row, NoSettings for None.
settings ==
  IF voice_settings = <<>> THEN NoSettings
  ELSE [row |-> TRUE, category_id |-> voice_settings[1].category_id,
        high_res_bitrate |-> voice_settings[1].high_res_bitrate]
\* guild.bitrate_limit: an unboosted guild's and a fully boosted guild's.
BitrateLimits == {96000, 384000}
\* A role's PermissionOverwrite on the category or on a channel, as far as
\* view_channel goes; "none" for a role without an overwrite.
NoOverwrites ==
  [category |-> [r \in Roles |-> "none"],
   channel |-> [c \in VoiceIds |-> [r \in Roles |-> "none"]]]
\* No command of the voice cog has ended yet, no call of Link has been made.
NoAnswer == [cmd |-> "none", channel |-> 0, out |-> "none"]
NoResult == [op |-> "none", out |-> "none"]
\* VerifyMapping.map returning None: no row has guild_id 0.
None == [guild_id |-> 0, username |-> "", domain |-> ""]
\* VerifyMapping.map has not been called yet.
NoMapped == [called |-> FALSE, guild_id |-> 0, username |-> "", domain |-> "",
             out |-> None]
\* The id of the one category a row can name.
CategoryId == 1
\* No channel under an id; a channel as create_voice_channel makes it: its
\* name (with or without HI-RES-), its members, whether it has a last_message.
NoChannel == [there |-> FALSE, high |-> FALSE, members |-> 0, used |-> FALSE]
NewChannel(high) ==
  [there |-> TRUE, high |-> high, members |-> 0, used |-> FALSE]
\* No pass under way.  `joined` remembers a member joining a channel while
\* the pass runs, `runs` is the parity of the passes ended, `out` how the
\* last one ended, `before` the channel the member of the event has left (0
\* for none): on_voice_state_update looks at it once the pass is over.
IdlePass == [pc |-> "idle", kind |-> "none", todo |-> <<>>, joined |-> FALSE,
             out |-> "none", runs |-> 0, before |-> 0]

\* The cogs after construction: the unverify cog over any roles, overwrites
\* and GuildConfig table, the voice cog in a guild without a VoiceSettings
\* row and without voice channels.
Init ==
  /\ now = 0
  /\ guildUp = TRUE
  /\ present = Members
  /\ roles = AllRoles
  /\ channels = Channels
  /\ denied = [roles |-> {}, channels |-> {}]
  /\ held \in [Members -> SUBSET Roles]
  /\ overw \in [Channels -> [Members -> {"none", "allow", "deny"}]]
  /\ config \in {NoConfig, UnverifyRole}
  /\ items = <<>>
  /\ cmd = [h \in Handlers |-> IdleCmd]
  /\ reply = [member |-> 0, out |-> "none"]
  /\ rv = IdleRv
  /\ queue = <<>>
  /\ loop = "ready"
  /\ voice_settings = <<>>
  /\ category = FALSE
  /\ voice = [c \in VoiceIds |-> NoChannel]
  /\ nextId = 1
  /\ nodelete = {}
  /\ locked = <<>>
  /\ sync = [x \in Contexts |-> IdlePass]
  /\ bitrate_limit = 96000
  /\ overwrites = NoOverwrites
  /\ answer = NoAnswer
  /\ links = <<>>
  /\ link_result = NoResult
  /\ mapping = {}
  /\ mapped = NoMapped

\* The cogs after construction: the voice cog over any VoiceSettings row, the
\* category there or not and no voice channel yet, the unverify cog in a
\* guild where nobody has a role or an overwrite.
InitVoice ==
  /\ voice_settings \in {<<>>}
       \cup {<<r>> : r \in [guild_id : {GuildId}, category_id : {0, CategoryId},
                            high_res_bitrate : {0} \cup Bitrates]}
  /\ category \in BOOLEAN
  /\ voice = [c \in VoiceIds |-> NoChannel]
  /\ nextId = 1
  /\ nodelete = {}
  /\ locked = <<>>
  /\ sync = [x \in Contexts |-> IdlePass]
  /\ bitrate_limit = 96000
  /\ overwrites = NoOverwrites
  /\ answer = NoAnswer
  /\ links = <<>>
  /\ link_result = NoResult
  /\ mapping = {}
  /\ mapped = NoMapped
  /\ now = 0
  /\ guildUp = TRUE
  /\ present = Members
  /\ roles = AllRoles
  /\ channels = Channels
  /\ denied = [roles |-> {}, channels |-> {}]
  /\ held = [m \in Members |-> {}]
  /\ overw = [c \in Channels |-> [m \in Members |-> "none"]]
  /\ config = NoConfig
  /\ items = <<>>
  /\ cmd = [h \in Handlers |-> IdleCmd]
  /\ reply = [member |-> 0, out |-> "none"]
  /\ rv = IdleRv
  /\ queue = <<>>
  /\ loop = "ready"

\* ------------------------------------------------- src/unverify/database.py
\* UnverifyItem.get_member(member, status): the member's rows with that status
get_member(m, status) ==
  {i \in DOMAIN items : items[i].user_id = m /\ items[i].status = status}

\* UnverifyItem.add without its look for a waiting row.
AddRaisesEndTimeOnly(m, end_time) == end_time < now

\* UnverifyItem.add raises ValueError: the end time has passed, or the member
\* has a waiting row (checked in the same synchronous call as the insert).
AddRaises(m, end_time) ==
  \/ end_time < now
  \/ get_member(m, "waiting") # {}

\* The row UnverifyItem.add inserts.
NewItem(m, end_time, rr, cr, cx) ==
  [idx |-> Len(items) + 1, user_id |-> m,
   end_time |-> end_time, last_check |-> NULL, roles_to_return |-> rr,
   channels_to_return |-> cr, channels_to_remove |-> cx, status |-> "waiting"]

\* GuildConfig.set(guild_id, unverify_role_id)
GuildConfigSet(r) == r

\* --------------------------------------------------- src/unverify/module.py
\* _unverify_member without the check at its head.
NeverUnverified(m) == FALSE

\* The check at the head of _unverify_member.
AlreadyUnverified(m) == get_member(m, "waiting") # {}

\* Impositions between _remove_roles and UnverifyItem.add.
InFlight == Cardinality({h \in Handlers : cmd[h].pc # "idle"})

\* The handler of a command on member m ends with outcome o: "passed" is the
\* reply to an end time in the past, "rejected" the ValueError of the check at
\* the head of _unverify_member, "not added" the ValueError of
\* UnverifyItem.add (both are answered "Member is already unverified"),
\* "done" the success, "error" any other exception that leaves the command.
Ended(h, m, o) ==
  /\ cmd' = [cmd EXCEPT ![h] = IdleCmd]
  /\ reply' = [member |-> m, out |-> o]

\* _unverify_member up to asyncio.sleep(2): the waiting check, then
\* _remove_roles.  A role whose removal the platform refuses is skipped, and
\* so is a refused grant of the unverify role.  A missing GuildConfig row ends
\* the handler with AttributeError after the roles are gone.
UnverifyMemberStart(h, m, end_time, keep) ==
  IF AlreadyUnverified(m)
  THEN /\ Ended(h, m, "rejected")
       /\ UNCHANGED held
  ELSE /\ Len(items) + InFlight < MaxItems
       /\ LET fail == held[m] \cap denied.roles
              addOk == config \notin denied.roles
          IN
            IF config = NoConfig
            THEN /\ held' = [held EXCEPT ![m] = fail]
                 /\ Ended(h, m, "error")
            ELSE /\ held' = [held EXCEPT ![m] =
                       fail \cup (IF config \in roles /\ addOk
                                  THEN {config} ELSE {})]
                 /\ cmd' = [cmd EXCEPT ![h] =
                       [pc |-> "settle", member |-> m, end_time |-> end_time,
                        removed |-> SeqOf(held[m] \ fail), keep |-> keep]]
                 /\ UNCHANGED reply

\* _remove_or_keep_channels changes the member's overwrite on channel c.
Mutates(c, m, keep) ==
  IF c \in keep THEN ~CanRead(c, m)
  ELSE CanRead(c, m) /\ overw[c][m] = "allow"

\* The channel at which _remove_or_keep_channels stops: the first one whose
\* set_permissions is refused (Forbidden is not PermissionError, so it leaves
\* the loop and the handler), or past the last channel.
StopAt(m, keep) ==
  LET refused == {c \in channels \cap denied.channels : Mutates(c, m, keep)}
  IN IF refused # {} THEN Min(refused) ELSE MaxChannel + 1

\* The channels _remove_or_keep_channels has changed when it stops.
Changed(m, keep) ==
  {c \in channels : c < StopAt(m, keep) /\ Mutates(c, m, keep)}

\* unverify user / selfunverify / gn: the command replies when the end time
\* has passed and otherwise calls _unverify_member without a keep list.
UnverifyUser(h, m, end_time) ==
  /\ cmd[h].pc = "idle"
  /\ \A k \in 1..(h - 1) : cmd[k].pc # "idle"
  /\ guildUp /\ m \in present
  /\ IF end_time < now
     THEN /\ Ended(h, m, "passed")
          /\ UNCHANGED held
     ELSE UnverifyMemberStart(h, m, end_time, {})
  /\ UNCHANGED <<verifyVars, syncVars, voiceVars, now, envVars, overw, dbVars, loopVars>>

\* _unverify_member called with a list of channels to keep (no command of the
\* cog passes one).
UnverifyMemberCall(h, m, end_time, keep) ==
  /\ cmd[h].pc = "idle"
  /\ \A k \in 1..(h - 1) : cmd[k].pc # "idle"
  /\ guildUp /\ m \in present
  /\ keep # {} /\ keep \subseteq channels
  /\ UnverifyMemberStart(h, m, end_time, keep)
  /\ UNCHANGED <<verifyVars, syncVars, voiceVars, now, envVars, overw, dbVars, loopVars>>

\* _unverify_member from asyncio.sleep(2) on: _remove_or_keep_channels, then
\* UnverifyItem.add.
UnverifyMemberFinish(h) ==
  /\ cmd[h].pc = "settled"
  /\ LET m == cmd[h].member
           keep == cmd[h].keep
           done == Changed(m, keep)
           added == done \cap keep
           removed == done \ keep
       IN /\ overw' = [c \in Channels |->
                 [overw[c] EXCEPT ![m] = IF c \in added THEN "allow"
                                         ELSE IF c \in removed THEN "deny"
                                         ELSE @]]
          /\ IF StopAt(m, keep) <= MaxChannel
             THEN /\ Ended(h, m, "error")
                  /\ UNCHANGED items
             ELSE IF AddRaises(m, cmd[h].end_time)
             THEN /\ Ended(h, m, "not added")
                  /\ UNCHANGED items
             ELSE /\ Ended(h, m, "done")
                  /\ items' = Append(items,
                       NewItem(m, cmd[h].end_time, cmd[h].removed,
                               SeqOf(removed), SeqOf(added)))
  /\ UNCHANGED <<verifyVars, syncVars, voiceVars, now, envVars, held, config, loopVars>>

\* unverify set: GuildConfig.set with a role of the guild.
UnverifySet ==
  /\ guildUp /\ UnverifyRole \in roles
  /\ config # GuildConfigSet(UnverifyRole)
  /\ config' = GuildConfigSet(UnverifyRole)
  /\ UNCHANGED <<verifyVars, syncVars, voiceVars, now, envVars, memVars, items, cmdVars, loopVars>>

\* unverify pardon: the member's waiting row gets end_time = now, and the
\* command replies that the reverifier will return the access.
UnverifyPardon(m) ==
  /\ guildUp /\ m \in present
  /\ get_member(m, "waiting") # {}
  /\ LET i == Min(get_member(m, "waiting"))
     IN /\ items[i].end_time # now
        /\ items' = [items EXCEPT ![i].end_time = now]
  /\ reply' = [member |-> m, out |-> "pardoned"]
  /\ UNCHANGED <<verifyVars, syncVars, voiceVars, now, envVars, memVars, config, cmd,
                 loopVars>>

\* ------------------------------------------------------- the restore sequence
\* _reverify_user ends: `o` is how.  An exception that leaves it also leaves
\* the reverifier's for loop and ends the task.
Return(o) ==
  /\ rv' = [IdleRv EXCEPT !.idx = rv.idx, !.caller = rv.caller, !.out = o]
  /\ IF rv.caller = "loop" /\ o = "raised"
     THEN queue' = <<>> /\ loop' = "failed"
     ELSE UNCHANGED <<queue, loop>>

\* _get_guild putting the row back in line when it finds no guild.
GuildMissingRequeue(i) ==
  [items EXCEPT ![i].status = "waiting", ![i].last_check = now]

\* _get_guild finds no guild: the row is marked and stamped, NotFound is raised
\* and _reverify_user returns on it.
GuildMissing(i) ==
  [items EXCEPT ![i].status = "guild_not_found", ![i].last_check = now]

\* _get_member after fetch_member raised NotFound, for a row that is already
\* member_left: the row is stamped.  (For any other status the handler reads
\* member.guild of a member that is None.)
MemberMissing(i) == [items EXCEPT ![i].last_check = now]

\* _reverify_user going on at once whatever the end time.
no_duration(i) == 0

\* _reverify_user, lines 220-224: the seconds it sleeps, 0 when the end time
\* is not in the future.
duration_in_s(i) ==
  IF items[i].end_time > now THEN items[i].end_time - now ELSE 0

\* _reverify_user(item) up to its first suspension: _get_guild, _get_member
\* and the decision to sleep until the end time (`wake` is when the sleep
\* ends, 0 without one).  A call made as "again" remembers the roles and
\* overwrites it started from.
ReverifyUser(i, caller) ==
  LET call == [IdleRv EXCEPT !.idx = i, !.caller = caller,
                 !.snap = IF caller = "again"
                          THEN [held |-> held, overw |-> overw] ELSE NoSnap]
  IN IF ~guildUp
     THEN /\ items' = GuildMissing(i)
          /\ rv' = [call EXCEPT !.out = "notfound"]
     ELSE IF items[i].user_id \notin present
     THEN IF items[i].status # "member_left"
          THEN /\ rv' = [call EXCEPT !.out = "raised"]
               /\ UNCHANGED items
          ELSE /\ items' = MemberMissing(i)
               /\ rv' = [call EXCEPT !.out = "notfound"]
     ELSE /\ rv' = [call EXCEPT
                 !.pc = IF duration_in_s(i) > 0 THEN "sleep" ELSE "roles",
                 !.wake = IF duration_in_s(i) > 0
                          THEN now + duration_in_s(i) ELSE 0]
          /\ UNCHANGED items

\* asyncio.sleep(duration) is over.
ReverifyWake ==
  /\ rv.pc = "sleep"
  /\ now >= rv.wake
  /\ rv' = [rv EXCEPT !.pc = "roles"]
  /\ UNCHANGED <<verifyVars, syncVars, voiceVars, now, envVars, memVars, dbVars, cmdVars, queue, loop>>

\* The roles _return_roles grants: the saved ones that still exist, less the
\* ones the platform refuses.
Returned(i) == (Range(items[i].roles_to_return) \cap roles) \ denied.roles

\* _return_roles
ReturnRoles ==
  /\ rv.pc = "roles"
  /\ held' = [held EXCEPT ![items[rv.idx].user_id] = @ \cup Returned(rv.idx)]
  /\ rv' = [rv EXCEPT !.pc = "channels"]
  /\ UNCHANGED <<verifyVars, syncVars, voiceVars, now, envVars, overw, dbVars, cmdVars, queue, loop>>

\* The position in channels_to_return at which _return_channels raises: the
\* first saved channel that no longer exists (its else branch reads gtx, which
\* is unbound there, and channel.name of None), or past the end.
FirstGone(list) ==
  IF \E k \in DOMAIN list : list[k] \notin channels
  THEN Min({k \in DOMAIN list : list[k] \notin channels})
  ELSE Len(list) + 1

\* _return_channels
ReturnChannels ==
  /\ rv.pc = "channels"
  /\ LET list == items[rv.idx].channels_to_return
         m == items[rv.idx].user_id
         stop == FirstGone(list)
     IN /\ overw' = [c \in Channels |->
              [overw[c] EXCEPT ![m] =
                 IF \E k \in 1..(stop - 1) :
                      list[k] = c /\ c \notin denied.channels
                 THEN "allow" ELSE @]]
        /\ IF stop <= Len(list)
           THEN Return("raised")
           ELSE /\ rv' = [rv EXCEPT !.pc = "temp"]
                /\ UNCHANGED <<queue, loop>>
  /\ UNCHANGED <<verifyVars, syncVars, voiceVars, now, envVars, held, dbVars, cmdVars>>

\* _remove_temp_channels
RemoveTempChannels ==
  /\ rv.pc = "temp"
  /\ LET list == items[rv.idx].channels_to_remove
         m == items[rv.idx].user_id
     IN overw' = [c \in Channels |->
          [overw[c] EXCEPT ![m] =
             IF c \in (Range(list) \cap channels) \ denied.channels
             THEN "none" ELSE @]]
  /\ rv' = [rv EXCEPT !.pc = "role"]
  /\ UNCHANGED <<verifyVars, syncVars, voiceVars, now, envVars, held, dbVars, cmdVars, queue, loop>>

\* _reverify_user, lines 240-270: the guild's unverify role is taken away.
\* Without a GuildConfig row config.unverify_role_id raises AttributeError.
RemoveUnverifyRole ==
  /\ rv.pc = "role"
  /\ IF config = NoConfig
     THEN /\ Return("raised")
          /\ UNCHANGED held
     ELSE /\ held' = [held EXCEPT ![items[rv.idx].user_id] =
                     IF config \in roles \ denied.roles
                     THEN @ \ {config} ELSE @]
          /\ rv' = [rv EXCEPT !.pc = "dm"]
          /\ UNCHANGED <<queue, loop>>
  /\ UNCHANGED <<verifyVars, syncVars, voiceVars, now, envVars, overw, dbVars, cmdVars>>

\* _reverify_user marking the row finished before it has returned anything.
ReverifyFinishEarly ==
  /\ rv.pc = "roles"
  /\ items' = [items EXCEPT ![rv.idx].status = "finished"]
  /\ Return("finished")
  /\ UNCHANGED <<verifyVars, syncVars, voiceVars, now, envVars, memVars, config, cmdVars>>

\* _reverify_user deleting the row it has restored instead of marking it.
ReverifyFinishDeletes ==
  /\ rv.pc = "dm"
  /\ items' = SubSeq(items, 1, rv.idx - 1)
                 \o SubSeq(items, rv.idx + 1, Len(items))
  /\ Return("finished")
  /\ UNCHANGED <<verifyVars, syncVars, voiceVars, now, envVars, memVars, config, cmdVars>>

\* _reverify_user, lines 281-296: the direct message (a blocked one is
\* logged), then status finished and save.
ReverifyFinish ==
  /\ rv.pc = "dm"
  /\ items' = [items EXCEPT ![rv.idx].status = "finished"]
  /\ Return("finished")
  /\ UNCHANGED <<verifyVars, syncVars, voiceVars, now, envVars, memVars, config, cmdVars>>

\* ------------------------------------------------------------ the reverifier
\* The keyword arguments UnverifyItem.get_items declares,
get_items_params == {"type", "status", "max_end_time", "min_last_checked"}
\* and the ones reverifier passes.
reverifier_kwargs == {"status", "max_end_time", "min_last_check"}

RECURSIVE ByEndTime(_)
\* order_by(UnverifyItem.end_time.asc())
ByEndTime(S) ==
  IF S = {} THEN <<>>
  ELSE LET first == Min({i \in S : \A j \in S :
                            items[i].end_time <= items[j].end_time})
       IN <<first>> \o ByEndTime(S \ {first})

\* UnverifyItem.get_items without its filter on the status.
get_items_any_status(status, max_end_time, min_last_checked) ==
  ByEndTime({i \in DOMAIN items :
     /\ items[i].end_time < max_end_time
     /\ \/ items[i].last_check = NULL
        \/ items[i].last_check < min_last_checked})

\* UnverifyItem.get_items(status, max_end_time, min_last_checked)
get_items(status, max_end_time, min_last_checked) ==
  ByEndTime({i \in DOMAIN items :
     /\ items[i].status = status
     /\ items[i].end_time < max_end_time
     /\ \/ items[i].last_check = NULL
        \/ items[i].last_check < min_last_checked})

\* One run of the reverifier task body.  A keyword get_items does not declare
\* is a TypeError, which ends the task: tasks.loop does not restart it.
Reverifier ==
  /\ loop = "ready" /\ rv.pc = "idle" /\ queue = <<>>
  /\ IF reverifier_kwargs \subseteq get_items_params
     THEN /\ queue' = get_items("waiting", now + LOOKAHEAD, now - STALE)
          /\ UNCHANGED loop
     ELSE /\ loop' = "failed"
          /\ UNCHANGED queue
  /\ UNCHANGED <<verifyVars, syncVars, voiceVars, now, envVars, memVars, dbVars, cmdVars, rv>>

\* for item in items: await self._reverify_user(item).  An exception that
\* leaves _reverify_user leaves the loop and ends the task.
ReverifierItem ==
  /\ rv.pc = "idle" /\ queue # <<>>
  /\ ReverifyUser(Head(queue), "loop")
  /\ queue' = IF rv'.out = "raised" THEN <<>> ELSE Tail(queue)
  /\ loop' = IF rv'.out = "raised" THEN "failed" ELSE loop
  /\ UNCHANGED <<verifyVars, syncVars, voiceVars, now, envVars, memVars, config, cmdVars>>

\* cog_unload: reverifier.cancel() ends the task at the await it is
\* suspended in, whatever _reverify_user was doing.
CogUnload ==
  /\ loop = "ready"
  /\ rv.pc # "idle"
  /\ rv' = [IdleRv EXCEPT !.idx = rv.idx, !.caller = rv.caller,
                          !.out = "cancelled"]
  /\ queue' = <<>>
  /\ loop' = "cancelled"
  /\ UNCHANGED <<verifyVars, syncVars, voiceVars, now, envVars, memVars, dbVars, cmdVars>>

\* UnverifyItem.get_items called with the reverifier's three values under the
\* names get_items declares, and the rows it returns handed to the
\* reverifier's for loop.
GetItemsCall ==
  /\ loop = "ready" /\ rv.pc = "idle" /\ queue = <<>>
  /\ get_items("waiting", now + LOOKAHEAD, now - STALE) # <<>>
  /\ queue' = get_items("waiting", now + LOOKAHEAD, now - STALE)
  /\ UNCHANGED <<verifyVars, syncVars, voiceVars, now, envVars, memVars, dbVars, cmdVars, rv,
                 loop>>

\* _reverify_user called on a row directly.
ReverifyUserCall(i) ==
  /\ rv.pc = "idle" /\ queue = <<>>
  /\ i \in DOMAIN items
  /\ ReverifyUser(i, "direct")
  /\ UNCHANGED <<verifyVars, syncVars, voiceVars, now, envVars, memVars, config, cmdVars, queue, loop>>

\* ---------------------------------------------------------- the environment
\* The third-party events outstanding.
Faults ==
  Cardinality(AllRoles \ roles) + Cardinality(Channels \ channels)
  + Cardinality(Members \ present) + (IF guildUp THEN 0 ELSE 1)
  + Cardinality(denied.roles) + Cardinality(denied.channels)

\* A third party deletes a role: no member holds it any more.
DeleteRole(r) ==
  /\ Faults < MaxFaults
  /\ r \in roles
  /\ roles' = roles \ {r}
  /\ held' = [m \in Members |-> held[m] \ {r}]
  /\ UNCHANGED <<verifyVars, syncVars, voiceVars, now, guildUp, present, channels, denied, overw, dbVars,
                 cmdVars, loopVars>>

\* A third party deletes a channel, and its overwrites with it.
DeleteChannel(c) ==
  /\ Faults < MaxFaults
  /\ c \in channels
  /\ channels' = channels \ {c}
  /\ overw' = [overw EXCEPT ![c] = [m \in Members |-> "none"]]
  /\ UNCHANGED <<verifyVars, syncVars, voiceVars, now, guildUp, present, roles, denied, held, dbVars,
                 cmdVars, loopVars>>

\* A member leaves the guild.
MemberLeaves(m) ==
  /\ Faults < MaxFaults
  /\ m \in present
  /\ \A h \in Handlers : cmd[h].pc # "idle" => cmd[h].member # m
  /\ rv.pc # "idle" => items[rv.idx].user_id # m
  /\ present' = present \ {m}
  /\ UNCHANGED <<verifyVars, syncVars, voiceVars, now, guildUp, roles, channels, denied, memVars, dbVars,
                 cmdVars, loopVars>>

\* The bot is removed from the guild: get_guild answers None from now on.
GuildLeaves ==
  /\ \A h \in Handlers : cmd[h].pc = "idle"
  /\ rv.pc = "idle"
  /\ guildUp /\ Faults < MaxFaults
  /\ guildUp' = FALSE
  /\ UNCHANGED <<verifyVars, syncVars, voiceVars, now, present, roles, channels, denied, memVars, dbVars,
                 cmdVars, loopVars>>

\* The bot loses the permission to change a role (role hierarchy) or a
\* channel's overwrites: the platform answers Forbidden from now on.
DenyRole(r) ==
  /\ Faults < MaxFaults
  /\ r \in roles \ denied.roles
  /\ denied' = [denied EXCEPT !.roles = @ \cup {r}]
  /\ UNCHANGED <<verifyVars, syncVars, voiceVars, now, guildUp, present, roles, channels, memVars, dbVars,
                 cmdVars, loopVars>>

DenyChannel(c) ==
  /\ Faults < MaxFaults
  /\ c \in channels \ denied.channels
  /\ denied' = [denied EXCEPT !.channels = @ \cup {c}]
  /\ UNCHANGED <<verifyVars, syncVars, voiceVars, now, guildUp, present, roles, channels, memVars, dbVars,
                 cmdVars, loopVars>>

\* SETTLE seconds pass: every asyncio.sleep(2) under way is over.
Advance ==
  /\ now < MaxTime
  /\ now' = now + SETTLE
  /\ cmd' = [h \in Handlers |->
        IF cmd[h].pc = "settle" THEN [cmd[h] EXCEPT !.pc = "settled"]
        ELSE cmd[h]]
  /\ UNCHANGED <<verifyVars, syncVars, voiceVars, envVars, memVars, dbVars, reply, loopVars>>

\* More than STALE seconds pass at once.
Hour ==
  /\ now <= MaxTime
  /\ now' = now + STALE + SETTLE
  /\ cmd' = [h \in Handlers |->
        IF cmd[h].pc = "settle" THEN [cmd[h] EXCEPT !.pc = "settled"]
        ELSE cmd[h]]
  /\ UNCHANGED <<verifyVars, syncVars, voiceVars, envVars, memVars, dbVars, reply, loopVars>>

\* The bot is back in the guild: get_guild resolves again.
GuildReturns ==
  /\ ~guildUp
  /\ guildUp' = TRUE
  /\ UNCHANGED <<verifyVars, syncVars, voiceVars, now, present, roles, channels, denied, memVars,
                 dbVars, cmdVars, loopVars>>

Environment ==
  \/ \E r \in AllRoles : DeleteRole(r)
  \/ \E c \in Channels : DeleteChannel(c)
  \/ \E r \in AllRoles : DenyRole(r)
  \/ \E c \in Channels : DenyChannel(c)
  \/ \E m \in Members : MemberLeaves(m)
  \/ GuildLeaves
  \/ Advance

\* ------------------------------------------------------ src/voice/database.py
\* VoiceSettings.validate_settings(guild)
validate_settings == settings.row /\ settings.category_id # 0

\* session.add in place of session.merge on a table without a primary key:
\* the row is inserted whatever the table holds.
add_row(table, row) == Append(table, row)

\* session.merge(row); session.commit(): the row with the same primary key
\* (guild_id) is replaced, and without one the row is inserted.
merge(table, row) ==
  IF \E k \in DOMAIN table : table[k].guild_id = row.guild_id
  THEN [k \in DOMAIN table |->
          IF table[k].guild_id = row.guild_id THEN row ELSE table[k]]
  ELSE Append(table, row)

\* VoiceSettings.set_category(guild, category): the table afterwards.
set_category ==
  merge(voice_settings,
        IF ~settings.row
        THEN [guild_id |-> GuildId, category_id |-> CategoryId,
              high_res_bitrate |-> 0]
        ELSE [voice_settings[1] EXCEPT !.category_id = CategoryId])

\* VoiceSettings.set_high_bitrate raises ValueError.
set_high_bitrate_raises(bitrate) ==
  bitrate # 0 /\ ~(64000 < bitrate /\ bitrate < 384000)

\* VoiceSettings.set_high_bitrate(guild, bitrate): the table afterwards.
set_high_bitrate(bitrate) ==
  merge(voice_settings,
        IF ~settings.row
        THEN [guild_id |-> GuildId, category_id |-> 0,
              high_res_bitrate |-> bitrate]
        ELSE [voice_settings[1] EXCEPT !.high_res_bitrate = bitrate])

\* VoiceSettings.remove(guild): the table afterwards.
remove == SelectSeq(voice_settings, LAMBDA row : row.guild_id # GuildId)

\* Another guild the bot is in, without a VoiceSettings row, and the id of a
\* voice channel of it.
OtherGuild == GuildId + 1
OtherChannel == MaxVoice + 1

\* VoiceSettings.validate_settings(guild) for the guild with that id.
valid_guild(guild_id) ==
  \E k \in DOMAIN voice_settings :
     /\ voice_settings[k].guild_id = guild_id
     /\ voice_settings[k].category_id # 0

\* guild.get_channel(channel_id) finds a channel, among the channels v of the
\* guild's category.
get_channel(guild_id, channel_id, v) ==
  guild_id = GuildId /\ channel_id \in VoiceIds /\ v[channel_id].there

\* session.merge of a LockedChannels row: the row with the same primary key
\* (channel_id) is replaced, and the table is read in the order of its key.
merge_locked(row) ==
  LET others == {k \in DOMAIN locked : locked[k].channel_id # row.channel_id}
      ids == SeqOf({locked[k].channel_id : k \in others} \cup {row.channel_id})
  IN [i \in 1..Len(ids) |->
        IF ids[i] = row.channel_id THEN row
        ELSE locked[CHOOSE k \in others : locked[k].channel_id = ids[i]]]

\* The static methods LockedChannels defines.
LockedChannelsMethods == {"lock", "unlock", "remove", "is_locked", "get_all"}

\* LockedChannels.is_locked(channel)
is_locked(c) ==
  \E k \in DOMAIN locked : locked[k].channel_id = c /\ locked[k].locked

\* --------------------------------------------------------- src/voice/module.py
\* _get_category finding a category whatever the guild holds.
any_category == TRUE

\* _get_category(guild, settings.category_id) finds the category.
get_category == settings.category_id = CategoryId /\ category

\* empty_channels without its look at the members: the channels of a kind.
channels_of_kind(v, kind) ==
  {c \in VoiceIds : v[c].there /\ v[c].high = (kind = "high")}

\* __maintain_one_empty_channel: empty_channels of a kind among channels v.
empty_channels(v, kind) ==
  {c \in VoiceIds :
     v[c].there /\ v[c].members = 0 /\ v[c].high = (kind = "high")}

\* __maintain_one_empty_channel taking no channel for abandoned.
none_abandoned(v, kind) == {}

\* __maintain_one_empty_channel: abandoned_channels
abandoned_channels(v, kind) == {c \in empty_channels(v, kind) : v[c].used}

\* _sync: the kinds it maintains, in its order.
Kinds ==
  IF settings.high_res_bitrate # 0 THEN <<"high", "std">> ELSE <<"std">>

\* The kinds _sync has still to maintain after `kind`.
Rest(kind) == IF kind = "high" THEN <<"std">> ELSE <<>>

RECURSIVE Maintain(_, _, _)
\* _sync from the head of __maintain_one_empty_channel for Head(kinds) to
\* its next await, over the channels v: the pass p as it is there.  The
\* abandoned channels are listed before the channel is created.  A pass that
\* is over leaves its handler at "left" when a channel has been left.
Maintain(v, kinds, p) ==
  IF kinds = <<>>
  THEN [IdlePass EXCEPT !.out = "done", !.runs = 1 - p.runs,
                        !.before = p.before,
                        !.pc = IF p.before # 0 THEN "left" ELSE "idle"]
  ELSE LET kind == Head(kinds)
           todo == SeqOf(abandoned_channels(v, kind))
       IN IF Cardinality(empty_channels(v, kind)) - Len(todo) < 1
          THEN [p EXCEPT !.pc = "create", !.kind = kind, !.todo = todo]
          ELSE IF todo # <<>>
          THEN [p EXCEPT !.pc = "delete", !.kind = kind, !.todo = todo]
          ELSE Maintain(v, Tail(kinds), p)

\* _check_and_sync over the channels v, started by x: the pass at its first
\* await, or ended.
check_and_sync(x, v) ==
  IF ~validate_settings \/ ~get_category
  THEN [IdlePass EXCEPT !.out = "skipped", !.runs = 1 - sync[x].runs]
  ELSE Maintain(v, Kinds, [IdlePass EXCEPT !.runs = sync[x].runs])

\* LockedChannels.remove(channel): the table without the channel's row.
LockedRemove(c) == SelectSeq(locked, LAMBDA row : row.channel_id # c)

\* _sync's sweep leaving every row where it is.
kept_rows(v) == locked

\* _sync's sweep of the LockedChannels rows, over the channels v: a row goes
\* when its guild has no valid settings, or when the guild has no such
\* channel.  _sync is reached past the checks of _check_and_sync only.
Swept(v) ==
  IF validate_settings /\ get_category
  THEN SelectSeq(locked, LAMBDA row :
         /\ valid_guild(row.guild_id)
         /\ get_channel(row.guild_id, row.channel_id, v))
  ELSE locked

\* The channels after channel.delete() on c: a refusal, or a channel that is
\* already gone, is logged by _remove_channel.
Deleted(v, c) ==
  IF v[c].there /\ c \notin nodelete THEN [v EXCEPT ![c] = NoChannel] ELSE v

\* LockedChannels.remove(channel) on the table t.
Unmarked(t, c) == SelectSeq(t, LAMBDA row : row.channel_id # c)

\* on_voice_state_update past _check_and_sync, its pass p over: a channel
\* the member has left that is empty loses its LockedChannels row and is
\* deleted.  The channels v and the table t afterwards, and the handler done.
LeftVoice(v, p) ==
  IF p.pc = "left" /\ v[p.before].members < 1 THEN Deleted(v, p.before) ELSE v

LeftLocked(t, v, p) ==
  IF p.pc = "left" /\ v[p.before].members < 1 THEN Unmarked(t, p.before) ELSE t

Over(p) ==
  IF p.pc = "left" THEN [p EXCEPT !.pc = "idle", !.before = 0] ELSE p

\* One run of the sync_channels task body, to its first await.  get_guild
\* answers None for the row of a guild the bot is not in, _check_and_sync
\* hands it to validate_settings, and VoiceSettings.get reads its id: the
\* AttributeError leaves the task body, and the task is not run again.
SyncChannels ==
  /\ sync["timer"].pc = "idle"
  /\ settings.row
  /\ IF ~guildUp
     THEN /\ sync' = [sync EXCEPT !["timer"] =
                 [@ EXCEPT !.pc = "failed", !.out = "raised"]]
          /\ UNCHANGED locked
     ELSE /\ sync' = [sync EXCEPT !["timer"] = check_and_sync("timer", voice)]
          /\ locked' = Swept(voice)
  /\ UNCHANGED <<poolFrame, overwrites, voice, nextId, nodelete>>

\* _create_channel returns: the category has one more channel of the kind,
\* with the category's overwrites.
CreateChannel(x) ==
  /\ sync[x].pc = "create"
  /\ nextId <= MaxVoice
  /\ LET v == [voice EXCEPT ![nextId] = NewChannel(sync[x].kind = "high")]
         p == IF sync[x].todo # <<>> THEN [sync[x] EXCEPT !.pc = "delete"]
              ELSE Maintain(v, Rest(sync[x].kind), sync[x])
     IN /\ voice' = LeftVoice(v, p)
        /\ locked' = LeftLocked(locked, v, p)
        /\ sync' = [sync EXCEPT ![x] = Over(p)]
  /\ nextId' = nextId + 1
  /\ overwrites' = [overwrites EXCEPT !.channel[nextId] = overwrites.category]
  /\ UNCHANGED <<poolFrame, nodelete>>

\* _remove_channel returns for the next abandoned channel of the list.
RemoveChannel(x) ==
  /\ sync[x].pc = "delete"
  /\ LET v == Deleted(voice, Head(sync[x].todo))
         rest == Tail(sync[x].todo)
         p == IF rest # <<>> THEN [sync[x] EXCEPT !.todo = rest]
              ELSE Maintain(v, Rest(sync[x].kind),
                            [sync[x] EXCEPT !.todo = <<>>])
     IN /\ voice' = LeftVoice(v, p)
        /\ locked' = LeftLocked(locked, v, p)
        /\ sync' = [sync EXCEPT ![x] = Over(p)]
  /\ UNCHANGED <<poolFrame, overwrites, nextId, nodelete>>

\* A member joins channel c, and on_voice_state_update handles it: for a
\* channel without last_message it calls LockedChannels.set_lock, which
\* LockedChannels does not have (AttributeError); for the others it runs
\* _check_and_sync.
Join(c) ==
  /\ voice[c].there /\ voice[c].members < MaxOccupants
  /\ LET v == [voice EXCEPT ![c].members = @ + 1]
         seen == [x \in Contexts |->
                    IF sync[x].pc # "idle"
                    THEN [sync[x] EXCEPT !.joined = TRUE] ELSE sync[x]]
     IN /\ voice' = v
        /\ IF validate_settings /\ get_category /\ voice[c].used
           THEN /\ sync["event"].pc = "idle"
                /\ sync' = [seen EXCEPT !["event"] = check_and_sync("event", v)]
                /\ locked' = Swept(v)
           ELSE /\ sync' = seen
                /\ UNCHANGED locked
  /\ UNCHANGED <<poolFrame, overwrites, nextId, nodelete>>

\* A member leaves channel c, and on_voice_state_update handles it: a channel
\* left empty loses its LockedChannels row and is deleted.
Leave(c) ==
  /\ voice[c].there /\ voice[c].members > 0
  /\ LET v == [voice EXCEPT ![c].members = @ - 1]
     IN IF validate_settings /\ get_category /\ v[c].members < 1
        THEN /\ locked' = LockedRemove(c)
             /\ voice' = Deleted(v, c)
        ELSE /\ voice' = v
             /\ UNCHANGED locked
  /\ UNCHANGED <<poolFrame, overwrites, nextId, nodelete, sync>>

\* A member moves from channel a to channel b, and on_voice_state_update
\* handles it: the join into b as in Join (the AttributeError of set_lock for
\* a channel without last_message leaves the handler before it looks at a),
\* and after _check_and_sync the leave of a.
Move(a, b) ==
  /\ a # b
  /\ voice[a].there /\ voice[a].members > 0
  /\ voice[b].there /\ voice[b].members < MaxOccupants
  /\ LET v == [voice EXCEPT ![a].members = @ - 1, ![b].members = @ + 1]
         seen == [x \in Contexts |->
                    IF sync[x].pc # "idle"
                    THEN [sync[x] EXCEPT !.joined = TRUE] ELSE sync[x]]
         p == Maintain(v, Kinds, [IdlePass EXCEPT !.runs = sync["event"].runs,
                                                  !.before = a])
     IN IF validate_settings /\ get_category /\ voice[b].used
        THEN /\ sync["event"].pc = "idle"
             /\ voice' = LeftVoice(v, p)
             /\ locked' = LeftLocked(Swept(v), v, p)
             /\ sync' = [seen EXCEPT !["event"] = Over(p)]
        ELSE /\ voice' = v
             /\ sync' = seen
             /\ UNCHANGED locked
  /\ UNCHANGED <<poolFrame, overwrites, nextId, nodelete>>

\* Somebody writes into channel c: it has a last_message from now on.
Write(c) ==
  /\ voice[c].there /\ ~voice[c].used
  /\ voice' = [voice EXCEPT ![c].used = TRUE]
  /\ UNCHANGED <<poolFrame, overwrites, nextId, nodelete, locked, sync>>

\* A moderator creates a voice channel in the category by hand.
CreateByHand(high) ==
  /\ category
  /\ nextId <= MaxVoice
  /\ voice' = [voice EXCEPT ![nextId] = NewChannel(high)]
  /\ nextId' = nextId + 1
  /\ overwrites' = [overwrites EXCEPT !.channel[nextId] = overwrites.category]
  /\ UNCHANGED <<poolFrame, nodelete, locked, sync>>

\* The bot loses the permission to delete channel c.
DenyDelete(c) ==
  /\ voice[c].there
  /\ Cardinality(nodelete) < MaxFaults
  /\ nodelete' = nodelete \cup {c}
  /\ UNCHANGED <<poolFrame, overwrites, voice, nextId, locked, sync>>

\* ------------------------------------------------------- src/sync/database.py
\* Link.get(guild_id, satellite_id): the rows of that pair.
link_get(guild_id, satellite_id) ==
  {k \in DOMAIN links : /\ links[k].guild_id = guild_id
                        /\ links[k].satellite_id = satellite_id}

\* Link.get_by_satellite filtering on the wrong column.
get_by_guild(satellite_id) ==
  {k \in DOMAIN links : links[k].guild_id = satellite_id}

\* Link.get_by_satellite(satellite_id): the rows of that satellite, whatever
\* their main guild.
get_by_satellite(satellite_id) ==
  {k \in DOMAIN links : links[k].satellite_id = satellite_id}

\* Link.add(guild_id, satellite_id): an existing link is returned, a
\* satellite of another guild is a ValueError, and otherwise the row is
\* inserted (idx, the autoincremented key, is the row's place in the table
\* as long as no row is removed).
LinkAdd(guild_id, satellite_id) ==
  /\ IF link_get(guild_id, satellite_id) # {}
     THEN /\ link_result' = [op |-> "add", out |-> "existing"]
          /\ UNCHANGED links
     ELSE IF get_by_satellite(satellite_id) # {}
     THEN /\ link_result' = [op |-> "add", out |-> "ValueError"]
          /\ UNCHANGED links
     ELSE /\ link_result' = [op |-> "add", out |-> "added"]
          /\ links' = Append(links, [guild_id |-> guild_id,
                                     satellite_id |-> satellite_id])
  /\ UNCHANGED <<unverifyVars, voiceVars, verifyVars>>

\* Link.remove(guild_id, satellite_id): the rows of the pair are deleted.
LinkRemove(guild_id, satellite_id) ==
  /\ link_get(guild_id, satellite_id) # {}
  /\ links' = SelectSeq(links, LAMBDA row :
                 ~(row.guild_id = guild_id /\ row.satellite_id = satellite_id))
  /\ link_result' = [op |-> "remove", out |-> "removed"]
  /\ UNCHANGED <<unverifyVars, voiceVars, verifyVars>>

\* ----------------------------------------------------- src/verify/database.py
\* The guilds that own mappings, and the usernames and domains of the rows and
\* of the calls: the empty string, and a name in two spellings.
MapGuilds == {GuildId, GuildId + 1}
Usernames == {"", "a", "A"}
Domains == {"", "x", "X"}

\* str.lower() and func.lower() on these names.
lower(name) ==
  IF name = "A" THEN "a" ELSE IF name = "X" THEN "x" ELSE name

\* A VerifyMapping row, as far as its primary key goes (the rule it names
\* plays no part in the look-up: a row with rule None is returned as any
\* other).
VerifyMappingRow(guild_id, username, domain) ==
  [guild_id |-> guild_id, username |-> username, domain |-> domain]

\* The query of VerifyMapping.map with the comparisons of filter_by left out:
\* only the case-insensitive filters.
query_lower(guild_id, username, domain) ==
  {r \in mapping : /\ r.guild_id = guild_id
                   /\ lower(r.username) = lower(username)
                   /\ lower(r.domain) = lower(domain)}

\* The query of VerifyMapping.map: filter_by(guild_id, username, domain) and
\* the two filters on the lowered columns.
query(guild_id, username, domain) ==
  {r \in mapping : /\ r.guild_id = guild_id
                   /\ r.username = username
                   /\ r.domain = domain
                   /\ lower(r.username) = lower(username)
                   /\ lower(r.domain) = lower(domain)}

\* Query.one_or_none()
one_or_none(S) == IF S = {} THEN None ELSE CHOOSE r \in S : TRUE

RECURSIVE map(_, _, _)
\* VerifyMapping.map(guild_id, username, domain)
map(guild_id, username, domain) ==
  LET found == one_or_none(query(guild_id, username, domain))
  IN IF found = None
     THEN IF username # "" THEN map(guild_id, "", domain)
          ELSE IF domain # "" THEN map(guild_id, "", "")
          ELSE None
     ELSE found

\* VerifyMapping.add(guild_id, username, domain, rule): the row is looked up
\* by its key, made if there is none, and merged.
MappingAdd(guild_id, username, domain) ==
  /\ LET row == VerifyMappingRow(guild_id, username, domain)
     IN /\ Cardinality(mapping \cup {row}) <= MaxMapping
        /\ mapping' = mapping \cup {row}
  /\ UNCHANGED <<unverifyVars, voiceVars, syncVars, mapped>>

\* VerifyMapping.delete(): verification mapping remove deletes the row its
\* call of map returned.
MappingDelete ==
  /\ mapped.called /\ mapped.out \in mapping
  /\ mapping' = mapping \ {mapped.out}
  /\ UNCHANGED <<unverifyVars, voiceVars, syncVars, mapped>>

\* VerifyMapping.wipe(guild_id)
MappingWipe(guild_id) ==
  /\ \E r \in mapping : r.guild_id = guild_id
  /\ mapping' = {r \in mapping : r.guild_id # guild_id}
  /\ UNCHANGED <<unverifyVars, voiceVars, syncVars, mapped>>

\* A call of VerifyMapping.map, as verification mapping info makes it.
Map(guild_id, username, domain) ==
  /\ mapped' = [called |-> TRUE, guild_id |-> guild_id, username |-> username,
                domain |-> domain, out |-> map(guild_id, username, domain)]
  /\ UNCHANGED <<unverifyVars, voiceVars, syncVars, mapping>>

\* What the settings commands leave alone.
commandFrame == <<now, guildUp, present, roles, channels, denied, held, overw,
                  config, items, cmd, reply, rv, queue, loop, links,
                  link_result, mapping, mapped, category, voice, nextId, nodelete, locked,
                  bitrate_limit, overwrites>>

\* A command of the voice cog ends: `o` is how.
Answer(name, c, o) == answer' = [cmd |-> name, channel |-> c, out |-> o]

\* voice category, up to its awaits (the log entry and the reply): the row is
\* written.  _check_and_sync follows them.
VoiceCategory ==
  /\ category
  /\ sync["command"].pc = "idle"
  /\ voice_settings' = set_category
  /\ Answer("category", 0, "set")
  /\ sync' = [sync EXCEPT !["command"].pc = "start"]
  /\ UNCHANGED commandFrame

\* voice bitrate: a bitrate outside the guild's range is answered "Invalid
\* bitrate"; otherwise as voice category, and a ValueError of
\* set_high_bitrate leaves the command.
VoiceBitrate(bitrate) ==
  /\ sync["command"].pc = "idle"
  /\ IF ~(64000 < bitrate /\ bitrate <= bitrate_limit)
     THEN /\ Answer("bitrate", 0, "invalid")
          /\ UNCHANGED <<voice_settings, sync>>
     ELSE IF set_high_bitrate_raises(bitrate)
     THEN /\ Answer("bitrate", 0, "raised")
          /\ UNCHANGED <<voice_settings, sync>>
     ELSE /\ voice_settings' = set_high_bitrate(bitrate)
          /\ Answer("bitrate", 0, "set")
          /\ sync' = [sync EXCEPT !["command"].pc = "start"]
  /\ UNCHANGED commandFrame

\* The command goes on after its reply: _check_and_sync to its first await.
CommandSync ==
  /\ sync["command"].pc = "start"
  /\ sync' = [sync EXCEPT !["command"] = check_and_sync("command", voice)]
  /\ locked' = Swept(voice)
  /\ UNCHANGED <<poolFrame, overwrites, voice, nextId, nodelete>>

\* voice disable
VoiceDisable ==
  /\ voice_settings' = remove
  /\ Answer("disable", 0, "disabled")
  /\ UNCHANGED <<commandFrame, sync>>

\* lock, in a voice channel of the configured category: a channel that is not
\* locked yet takes the handler to LockedChannels.set_lock, which the class
\* does not define; the AttributeError leaves the command before any
\* overwrite is touched.
Lock(c) ==
  /\ voice[c].there /\ validate_settings /\ get_category
  /\ IF is_locked(c) THEN Answer("lock", c, "already")
     ELSE /\ "set_lock" \notin LockedChannelsMethods
          /\ Answer("lock", c, "raised")
  /\ UNCHANGED <<commandFrame, voice_settings, sync>>

\* unlock, in a voice channel of the configured category: a channel that is
\* not locked is answered "already unlocked"; for a locked one the handler
\* reaches LockedChannels.set_lock as lock does.
Unlock(c) ==
  /\ voice[c].there /\ validate_settings /\ get_category
  /\ IF ~is_locked(c) THEN Answer("unlock", c, "already")
     ELSE /\ "set_lock" \notin LockedChannelsMethods
          /\ Answer("unlock", c, "raised")
  /\ UNCHANGED <<commandFrame, voice_settings, sync>>

\* LockedChannels.lock(guild, channel), called on a voice channel of the
\* guild (on OtherChannel in OtherGuild).  No handler of the cog calls it:
\* lock and unlock call set_lock.
LockedLock(guild_id, c) ==
  /\ IF guild_id = GuildId THEN c \in VoiceIds /\ voice[c].there
     ELSE c = OtherChannel
  /\ ~is_locked(c)
  /\ locked' = merge_locked([guild_id |-> guild_id, channel_id |-> c,
                             locked |-> TRUE])
  /\ UNCHANGED <<poolFrame, overwrites, voice, nextId, nodelete, sync>>

\* The channel overwrites that differ from the category's.
Edits ==
  Cardinality({cr \in VoiceIds \X Roles :
     /\ voice[cr[1]].there
     /\ overwrites.channel[cr[1]][cr[2]] # overwrites.category[cr[2]]})

\* A moderator changes the overwrite of role r on channel c by hand.
EditOverwrite(c, r, p) ==
  /\ voice[c].there
  /\ Edits < MaxFaults
  /\ overwrites.channel[c][r] # p
  /\ overwrites' = [overwrites EXCEPT !.channel[c][r] = p]
  /\ UNCHANGED <<poolFrame, voice, nextId, nodelete, locked, sync>>

\* ------------------------------------------------------- the specifications
\* The cog as it is loaded: the commands, the reverifier task, the platform.
Next ==
  \/ \E h \in Handlers, m \in Members, e \in Times : UnverifyUser(h, m, e)
  \/ \E h \in Handlers : UnverifyMemberFinish(h)
  \/ UnverifySet
  \/ \E m \in Members : UnverifyPardon(m)
  \/ Reverifier
  \/ Environment

Spec == Init /\ [][Next]_vars

\* The steps of one _reverify_user call after its first suspension.
RestoreSteps ==
  \/ ReverifyWake
  \/ ReturnRoles
  \/ ReturnChannels
  \/ RemoveTempChannels
  \/ RemoveUnverifyRole
  \/ ReverifyFinish

\* One command handler at a time, and the platform.
Surroundings ==
  \/ \E m \in Members, e \in Times : UnverifyUser(1, m, e)
  \/ UnverifyMemberFinish(1)
  \/ UnverifySet
  \/ \E m \in Members : UnverifyPardon(m)
  \/ Environment

\* The restore sequence as a unit under test: _reverify_user is called on any
\* row at any time, one call at a time, among the commands and the platform's
\* events.
NextRestore ==
  \/ Surroundings
  \/ \E i \in 1..MaxItems : ReverifyUserCall(i)
  \/ RestoreSteps

SpecRestore == Init /\ [][NextRestore]_vars

\* A call of _reverify_user has just ended with the row finished.
SecondDue == rv.pc = "idle" /\ rv.caller = "direct" /\ rv.out = "finished"

\* _reverify_user called once more on the row it has just finished.
ReverifyUserAgain ==
  /\ SecondDue
  /\ ReverifyUser(rv.idx, "again")
  /\ UNCHANGED <<verifyVars, syncVars, voiceVars, now, envVars, memVars, config, cmdVars, queue, loop>>

\* The second call is under way.
SecondRun == rv.caller = "again" /\ rv.pc # "idle"

\* The restore sequence run twice in a row: as NextRestore, but a call that
\* ends with the row finished is followed at once by a second call on the same
\* row, and nothing else happens until that one has ended.
NextTwice ==
  \/ /\ ~SecondDue /\ ~SecondRun
     /\ \/ Surroundings
        \/ \E i \in 1..MaxItems : ReverifyUserCall(i)
  \/ ReverifyUserAgain
  \/ RestoreSteps

SpecTwice == Init /\ [][NextTwice]_vars

\* The reverifier's for loop as a unit under test: the rows get_items returns
\* are restored one after the other, among the commands and the platform's
\* events; the guild can come back, an hour can pass, and the cog can be
\* unloaded.
NextTick ==
  \/ Surroundings
  \/ GetItemsCall
  \/ ReverifierItem
  \/ RestoreSteps
  \/ Hour
  \/ GuildReturns
  \/ CogUnload

SpecTick == Init /\ [][NextTick]_vars

\* The voice cog: the sync_channels task, the voice-state events, and what
\* moderators and members do to the channels of the category.
NextVoice ==
  \/ SyncChannels
  \/ \E x \in Contexts : CreateChannel(x)
  \/ \E x \in Contexts : RemoveChannel(x)
  \/ \E c \in VoiceIds : Join(c)
  \/ \E c \in VoiceIds : Leave(c)
  \/ \E c \in VoiceIds : Write(c)
  \/ \E high \in BOOLEAN : CreateByHand(high)
  \/ \E c \in VoiceIds : DenyDelete(c)

SpecVoice == InitVoice /\ [][NextVoice]_vars

\* The overwrites of a category that shows its channels to role 1 and has no
\* overwrite for the other roles.
CategoryOverwrites ==
  [NoOverwrites EXCEPT
     !.category = [r \in Roles |-> IF r = 1 THEN "allow" ELSE "none"]]

\* The voice cog in a guild where the category exists and nothing is set up
\* yet, with any boost level.
InitSerial ==
  /\ voice_settings = <<>>
  /\ category = TRUE
  /\ voice = [c \in VoiceIds |-> NoChannel]
  /\ nextId = 1
  /\ nodelete = {}
  /\ locked = <<>>
  /\ sync = [x \in Contexts |-> IdlePass]
  /\ bitrate_limit \in BitrateLimits
  /\ overwrites = CategoryOverwrites
  /\ answer = NoAnswer
  /\ links = <<>>
  /\ link_result = NoResult
  /\ mapping = {}
  /\ mapped = NoMapped
  /\ now = 0
  /\ guildUp = TRUE
  /\ present = Members
  /\ roles = AllRoles
  /\ channels = Channels
  /\ denied = [roles |-> {}, channels |-> {}]
  /\ held = [m \in Members |-> {}]
  /\ overw = [c \in Channels |-> [m \in Members |-> "none"]]
  /\ config = NoConfig
  /\ items = <<>>
  /\ cmd = [h \in Handlers |-> IdleCmd]
  /\ reply = [member |-> 0, out |-> "none"]
  /\ rv = IdleRv
  /\ queue = <<>>
  /\ loop = "ready"

\* A sync pass or a settings command is under way.
Busy == \E x \in Contexts : sync[x].pc # "idle"

\* The voice cog with its handlers one after the other: a pass runs to its end
\* before the next command or event is handled.
NextSerial ==
  \/ \E x \in Contexts : CreateChannel(x)
  \/ \E x \in Contexts : RemoveChannel(x)
  \/ CommandSync
  \/ /\ ~Busy
     /\ \/ SyncChannels
        \/ VoiceCategory
        \/ \E bitrate \in BitrateArgs : VoiceBitrate(bitrate)
        \/ VoiceDisable
        \/ \E c \in VoiceIds : Lock(c)
        \/ \E c \in VoiceIds : Unlock(c)
        \/ \E c \in VoiceIds : Join(c)
        \/ \E c \in VoiceIds : Leave(c)
        \/ \E c \in VoiceIds : Write(c)

SpecSerial == InitSerial /\ [][NextSerial]_vars

\* The voice cog set up: the guild has its VoiceSettings row, naming the
\* category, and no high bitrate.
InitLock ==
  /\ voice_settings = <<[guild_id |-> GuildId, category_id |-> CategoryId,
                         high_res_bitrate |-> 0]>>
  /\ category = TRUE
  /\ voice = [c \in VoiceIds |-> NoChannel]
  /\ nextId = 1
  /\ nodelete = {}
  /\ locked = <<>>
  /\ sync = [x \in Contexts |-> IdlePass]
  /\ bitrate_limit = 96000
  /\ overwrites = CategoryOverwrites
  /\ answer = NoAnswer
  /\ links = <<>>
  /\ link_result = NoResult
  /\ mapping = {}
  /\ mapped = NoMapped
  /\ now = 0
  /\ guildUp = TRUE
  /\ present = Members
  /\ roles = AllRoles
  /\ channels = Channels
  /\ denied = [roles |-> {}, channels |-> {}]
  /\ held = [m \in Members |-> {}]
  /\ overw = [c \in Channels |-> [m \in Members |-> "none"]]
  /\ config = NoConfig
  /\ items = <<>>
  /\ cmd = [h \in Handlers |-> IdleCmd]
  /\ reply = [member |-> 0, out |-> "none"]
  /\ rv = IdleRv
  /\ queue = <<>>
  /\ loop = "ready"

\* The commands lock and unlock among the pool's handlers, one handler after
\* the other, and moderators changing a channel's overwrites by hand.
NextLock ==
  \/ \E x \in Contexts : CreateChannel(x)
  \/ \E x \in Contexts : RemoveChannel(x)
  \/ /\ ~Busy
     /\ \/ SyncChannels
        \/ \E c \in VoiceIds : Lock(c)
        \/ \E c \in VoiceIds : Unlock(c)
        \/ \E c \in VoiceIds : Join(c)
        \/ \E c \in VoiceIds : Leave(c)
        \/ \E c \in VoiceIds : Write(c)
        \/ \E c \in VoiceIds, r \in Roles, p \in {"none", "allow", "deny"} :
             EditOverwrite(c, r, p)

SpecLock == InitLock /\ [][NextLock]_vars

\* The pool's handlers as the event loop runs them: a pass of the timer and
\* a pass of a voice-state event are cut at their awaits and interleave, in a
\* guild that is set up and where nobody else creates channels.
NextRace ==
  \/ SyncChannels
  \/ \E x \in Contexts : CreateChannel(x)
  \/ \E x \in Contexts : RemoveChannel(x)
  \/ \E c \in VoiceIds : Join(c)
  \/ \E c \in VoiceIds : Leave(c)
  \/ \E c \in VoiceIds : Write(c)

SpecRace == InitLock /\ [][NextRace]_vars

\* The same handlers, with members who move from one channel of the category
\* to another.
NextEvents ==
  \/ SyncChannels
  \/ \E x \in Contexts : CreateChannel(x)
  \/ \E x \in Contexts : RemoveChannel(x)
  \/ \E c \in VoiceIds : Join(c)
  \/ \E c \in VoiceIds : Leave(c)
  \/ \E a, b \in VoiceIds : Move(a, b)
  \/ \E c \in VoiceIds : Write(c)

SpecEvents == InitLock /\ [][NextEvents]_vars

\* The pool in a guild the bot is removed from and invited back to: while it
\* is out, no voice-state event of the guild reaches it.
NextGuild ==
  \/ SyncChannels
  \/ \E x \in Contexts : CreateChannel(x)
  \/ \E x \in Contexts : RemoveChannel(x)
  \/ /\ guildUp
     /\ \/ \E c \in VoiceIds : Join(c)
        \/ \E c \in VoiceIds : Leave(c)
  \/ \E c \in VoiceIds : Write(c)
  \/ GuildLeaves
  \/ GuildReturns

SpecGuild == InitLock /\ [][NextGuild]_vars

\* The channels LockedChannels rows are written for, of the guild and of
\* OtherGuild.
MarkChannels == VoiceIds \cup {OtherChannel}

\* The pool and the commands that write and remove the settings, over a
\* LockedChannels table that holds rows, one handler after the other.
NextMarks ==
  \/ \E x \in Contexts : CreateChannel(x)
  \/ \E x \in Contexts : RemoveChannel(x)
  \/ CommandSync
  \/ /\ ~Busy
     /\ \/ SyncChannels
        \/ VoiceCategory
        \/ VoiceDisable
        \/ \E g \in {GuildId, OtherGuild}, c \in MarkChannels : LockedLock(g, c)
        \/ \E c \in VoiceIds : Join(c)
        \/ \E c \in VoiceIds : Leave(c)
        \/ \E c \in VoiceIds : Write(c)

SpecMarks == InitLock /\ [][NextMarks]_vars

\* The same, with the scheduling the event loop gives: the task runs again
\* every 60 seconds as long as it is alive, and an await of a pass returns.
SpecMarksFair ==
  /\ SpecMarks
  /\ WF_vars(~Busy /\ SyncChannels)
  /\ WF_vars(CommandSync)
  /\ WF_vars(\E x \in Contexts : CreateChannel(x))
  /\ WF_vars(\E x \in Contexts : RemoveChannel(x))

\* The tables of the sync cog and of the verify cog before any row is
\* written, in a guild where the other cogs have nothing set up.
InitLink ==
  /\ links = <<>>
  /\ link_result = NoResult
  /\ mapping = {}
  /\ mapped = NoMapped
  /\ voice_settings = <<>>
  /\ category = FALSE
  /\ voice = [c \in VoiceIds |-> NoChannel]
  /\ nextId = 1
  /\ nodelete = {}
  /\ locked = <<>>
  /\ sync = [x \in Contexts |-> IdlePass]
  /\ bitrate_limit = 96000
  /\ overwrites = NoOverwrites
  /\ answer = NoAnswer
  /\ now = 0
  /\ guildUp = TRUE
  /\ present = Members
  /\ roles = AllRoles
  /\ channels = Channels
  /\ denied = [roles |-> {}, channels |-> {}]
  /\ held = [m \in Members |-> {}]
  /\ overw = [c \in Channels |-> [m \in Members |-> "none"]]
  /\ config = NoConfig
  /\ items = <<>>
  /\ cmd = [h \in Handlers |-> IdleCmd]
  /\ reply = [member |-> 0, out |-> "none"]
  /\ rv = IdleRv
  /\ queue = <<>>
  /\ loop = "ready"

\* The link table under any calls of Link.add and Link.remove.
NextLink ==
  \/ \E g \in Guilds, s \in Guilds : LinkAdd(g, s)
  \/ \E g \in Guilds, s \in Guilds : LinkRemove(g, s)

SpecLink == InitLink /\ [][NextLink]_vars

\* The mapping table under any calls of VerifyMapping.add, delete, wipe and
\* map.
NextMap ==
  \/ \E g \in MapGuilds, u \in Usernames, d \in Domains : MappingAdd(g, u, d)
  \/ MappingDelete
  \/ \E g \in MapGuilds : MappingWipe(g)
  \/ \E g \in MapGuilds, u \in Usernames, d \in Domains : Map(g, u, d)

SpecMap == InitLink /\ [][NextMap]_vars

\* -------------------------------------------------------------- properties
\* C1: in every reachable state each member has at most one row with status
\* waiting, whatever the interleaving of impositions, pardons and ticks.
C1_OneWaiting ==
  \A m \in Members :
    Cardinality({i \in DOMAIN items :
                   items[i].user_id = m /\ items[i].status = "waiting"}) <= 1

\* Two impositions on one member overlap: one has inserted its row while the
\* other, past the check at its head, is about to call UnverifyItem.add.
C1_Witness ==
  \E h \in Handlers :
    /\ cmd[h].pc = "settled"
    /\ \E i \in DOMAIN items :
         items[i].user_id = cmd[h].member /\ items[i].status = "waiting"

\* C2: _unverify_member called for a member who has a waiting row is
\* rejected, and that step leaves every member's roles, every channel
\* overwrite and the rows unchanged.
C2_RejectedUntouched ==
  [][\A h \in Handlers, m \in Members, e \in Times :
       (/\ e >= now
        /\ \E i \in DOMAIN items :
              items[i].user_id = m /\ items[i].status = "waiting"
        /\ UnverifyUser(h, m, e))
       => (/\ reply' = [member |-> m, out |-> "rejected"]
           /\ cmd'[h].pc = "idle"
           /\ held' = held /\ overw' = overw /\ items' = items)]_vars

\* An imposition has been rejected by the check at the head.
C2_Witness ==
  /\ reply.out = "rejected"
  /\ \E i \in DOMAIN items :
       items[i].user_id = reply.member /\ items[i].status = "waiting"

\* A row the next tick has to restore: waiting, its end time passed, its
\* guild and its member in reach.
Due(i) ==
  /\ items[i].status = "waiting"
  /\ items[i].end_time <= now
  /\ guildUp /\ items[i].user_id \in present

\* C4: a waiting row whose end time has passed, with guild and member in
\* reach, is restored by the next tick; as a first step the tick takes the row
\* up for restoring.
C4_TickTakesDue ==
  [][Reverifier => \A i \in DOMAIN items : Due(i) => i \in Range(queue')]_vars

\* C6: a tick that meets a row whose guild does not resolve goes on: no
\* exception leaves the tick and the rows it selected are processed.
C6_TickSurvivesMissingGuild ==
  [][(/\ Reverifier
      /\ ~guildUp
      /\ \E i \in DOMAIN items : items[i].status = "waiting")
     => (loop' = "ready" /\ queue' # <<>>)]_vars

\* The positions of _reverify_user past its lookups and its sleep.
Restoring == {"roles", "channels", "temp", "role", "dm"}

\* C3: the restore sequence run on the row an imposition produced gives back
\* what the imposition took; saved roles and channels deleted in between are
\* skipped, so when the sequence ends the member holds every saved role that
\* still exists and reads every saved channel that still exists.
C3_RestoreInverts ==
  [][(/\ rv.pc \in Restoring /\ rv'.pc = "idle"
      /\ items[rv.idx].status = "waiting"
      /\ config # NoConfig
      /\ denied = [roles |-> {}, channels |-> {}])
     => LET m == items[rv.idx].user_id
        IN /\ \A r \in Range(items[rv.idx].roles_to_return) \cap roles :
                r \in held'[m]
           /\ \A c \in Range(items[rv.idx].channels_to_return) \cap channels :
                overw'[c][m] = "allow"]_vars

\* C5: a row whose status is not waiting never gets the status waiting again.
C5_NeverBackToWaiting ==
  [][\A i \in DOMAIN items :
       items[i].status # "waiting" => items'[i].status # "waiting"]_vars

\* A row has left waiting and _reverify_user has been called on it again.
C5_Witness ==
  /\ rv.pc = "idle" /\ rv.out = "notfound"
  /\ rv.idx \in DOMAIN items
  /\ items[rv.idx].status = "guild_not_found"
  /\ items[rv.idx].last_check > items[rv.idx].end_time
  /\ \E j \in DOMAIN items : items[j].status = "finished"

\* C7: a failure while one row is restored stays inside _reverify_user, so
\* that the for loop of the tick goes on to the next row: no exception leaves
\* _reverify_user.
C7_FailureContained == rv.out # "raised"

\* C8: once the restore sequence has found guild and member, and the guild has
\* its configuration row, a saved role or channel that is gone or a refused
\* mutation is skipped and the row ends with status finished.
C8_RestoreEndsFinished ==
  [][(rv.pc \in Restoring /\ rv'.pc = "idle" /\ config # NoConfig)
     => items'[rv.idx].status = "finished"]_vars

\* C9: the restore sequence run a second time on a row it has just finished
\* raises nothing, ends with the row finished again, and leaves every role
\* and every channel overwrite as the first run left them.
C9_SecondRunIdle ==
  [][/\ SecondDue => rv'.out = "none"
     /\ (SecondRun /\ rv'.pc = "idle")
        => (/\ rv'.out = "finished"
            /\ items'[rv.idx].status = "finished"
            /\ held' = rv.snap.held
            /\ overw' = rv.snap.overw)]_vars

\* The unoccupied channels of a kind among the channels v of the category.
Free(v, kind) ==
  {c \in VoiceIds :
     v[c].there /\ v[c].members = 0 /\ v[c].high = (kind = "high")}

\* The pass started by x ends in this step, having run _sync to its end.
PassDone(x) == sync'[x].runs # sync[x].runs /\ sync'[x].out = "done"

\* C10 as the specification states it: when a sync pass has run to its end
\* the category holds exactly one unoccupied standard channel, and exactly
\* one unoccupied high-bitrate channel when a high bitrate is configured.
C10_ExactlyOneFree ==
  [][\A x \in Contexts :
       PassDone(x)
       => (/\ Cardinality(Free(voice', "std")) = 1
           /\ settings.high_res_bitrate # 0
                => Cardinality(Free(voice', "high")) = 1)]_vars

\* C10, amended: when a sync pass during which no member joined a channel of
\* the category has run to its end, the category holds at least one
\* unoccupied standard channel, and at least one unoccupied high-bitrate
\* channel when a high bitrate is configured.
C10_AtLeastOneFree ==
  [][\A x \in Contexts :
       (PassDone(x) /\ ~sync[x].joined)
       => (/\ Cardinality(Free(voice', "std")) >= 1
           /\ settings.high_res_bitrate # 0
                => Cardinality(Free(voice', "high")) >= 1)]_vars

\* The timer's pass has run to its end with a high bitrate configured; the
\* category has got two channels so far, one of each kind, both unoccupied.
C10_Witness ==
  /\ sync["timer"].pc = "idle" /\ sync["timer"].out = "done"
  /\ settings.high_res_bitrate # 0
  /\ nextId = 3
  /\ Cardinality(Free(voice, "std")) = 1
  /\ Cardinality(Free(voice, "high")) = 1

\* The channels of a kind a member can take: unoccupied and without a
\* last_message.
Fresh(v, kind) ==
  {c \in VoiceIds :
     v[c].there /\ v[c].members = 0 /\ ~v[c].used /\ v[c].high = (kind = "high")}

\* C11: a sync pass creates a channel of a kind only when the category has no
\* free channel of that kind (so always on a category without channels, and
\* again once a member has joined the only one), it creates exactly one, and
\* it does not end without a free standard channel, nor without a free
\* high-bitrate channel when a high bitrate is configured.  Free is
\* unoccupied and never written to; the handlers run one after the other.
C11_PoolQuota ==
  [][\A x \in Contexts :
       /\ CreateChannel(x)
          => (/\ Fresh(voice, sync[x].kind) = {}
              /\ Cardinality(Fresh(voice', sync[x].kind)) = 1
              /\ \A c \in VoiceIds : voice[c].there => voice'[c] = voice[c]
              /\ Cardinality({c \in VoiceIds : voice'[c].there})
                   = Cardinality({c \in VoiceIds : voice[c].there}) + 1)
       /\ PassDone(x)
          => (/\ Fresh(voice', "std") # {}
              /\ settings.high_res_bitrate # 0 => Fresh(voice', "high") # {})]_vars

\* The timer's second pass has ended: the first one made channel 1, a member
\* joined it, and the second one made channel 2 and nothing else.
C11_Witness ==
  /\ sync["timer"].pc = "idle" /\ sync["timer"].out = "done"
  /\ nextId = 3
  /\ voice[1].there /\ ~voice[1].high /\ voice[1].members = 1
  /\ Fresh(voice, "std") = {2}

\* The unoccupied channels of the category that have a last_message.
Abandoned(v) == {c \in VoiceIds : v[c].there /\ v[c].members = 0 /\ v[c].used}

\* C12: a channel with a last_message is deleted by the leave handler when
\* its last member leaves, and no sync pass ends with an unoccupied channel
\* that has a last_message still in the category.
C12_AbandonedPruned ==
  [][/\ \A c \in VoiceIds :
          (/\ Leave(c)
           /\ voice[c].used /\ voice[c].members = 1
           /\ validate_settings /\ get_category)
          => ~voice'[c].there
     /\ \A x \in Contexts : PassDone(x) => Abandoned(voice') = {}]_vars

\* C13: unlock called on a channel right after lock leaves the channel's
\* overwrite equal to the category's for every role the category has an
\* overwrite for.
C13_LockUnlockRestores ==
  [][\A c \in VoiceIds :
       (answer.cmd = "lock" /\ answer.channel = c /\ Unlock(c))
       => \A r \in Roles :
            overwrites.category[r] # "none"
            => overwrites'.channel[c][r] = overwrites'.category[r]]_vars

\* C14: the VoiceSettings table has at most one row for the guild and the
\* LockedChannels table at most one row for each channel.
C14_OneRowPerKey ==
  /\ Cardinality({k \in DOMAIN voice_settings :
                    voice_settings[k].guild_id = GuildId}) <= 1
  /\ \A c \in VoiceIds :
       Cardinality({k \in DOMAIN locked : locked[k].channel_id = c}) <= 1

\* voice category has been answered for a guild whose row had a high bitrate
\* already: the row has been written more than once.
C14_Witness ==
  /\ answer.cmd = "category"
  /\ settings.category_id = CategoryId
  /\ settings.high_res_bitrate # 0

\* C15: unverify pardon only sets the end time of the member's waiting row to
\* now and restores nothing itself; the run of the reverifier that follows
\* the pardon takes the pardoned row up for restoring and goes on running.
C15_PardonLeavesRestoreToTick ==
  [][/\ \A m \in Members :
          UnverifyPardon(m)
          => (/\ held' = held /\ overw' = overw
              /\ Len(items') = Len(items)
              /\ \A i \in DOMAIN items :
                    \/ items'[i] = items[i]
                    \/ items'[i] = [items[i] EXCEPT !.end_time = now])
     /\ (Reverifier /\ reply.out = "pardoned")
          => (/\ loop' = "ready"
              /\ \A i \in get_member(reply.member, "waiting") :
                    i \in Range(queue'))]_vars

\* C16: in a guild without a GuildConfig row an imposition is blocked: the
\* command ends without taking a role from anybody and without a new row.
C16_NoConfigBlocks ==
  [][\A h \in Handlers, m \in Members, e \in Times :
       (config = NoConfig /\ e >= now /\ UnverifyUser(h, m, e))
       => (held' = held /\ items' = items /\ cmd'[h].pc = "idle")]_vars

\* C17: when UnverifyItem.add rejects an imposition, nothing has been changed:
\* no role has been taken from the member, no overwrite is changed and no
\* row is added.
C17_AddRejectsBeforeMutation ==
  [][\A h \in Handlers :
       (UnverifyMemberFinish(h) /\ reply'.out = "not added")
       => (/\ cmd[h].removed = <<>>
           /\ overw' = overw
           /\ items' = items)]_vars

\* C18: voice bitrate answers a bitrate outside 64000 < bitrate <=
\* guild.bitrate_limit with a reply and leaves the table alone, and stores
\* every other bitrate in the guild's row without an error.
C18_BitrateCommand ==
  [][\A b \in BitrateArgs :
       VoiceBitrate(b)
       => IF 64000 < b /\ b <= bitrate_limit
          THEN answer'.out = "set" /\ settings'.high_res_bitrate = b
          ELSE answer'.out = "invalid" /\ voice_settings' = voice_settings]_vars

\* C19: no step of an imposition, a pardon or the restore sequence deletes a
\* row: the table keeps every row, under its idx.
C19_RowsOnlyGrow ==
  [][/\ Len(items') >= Len(items)
     /\ \A i \in DOMAIN items : items'[i].idx = items[i].idx]_vars

\* A restore has finished the first row, and a second imposition has added a
\* row after it.
C19_Witness ==
  /\ rv.pc = "idle" /\ rv.out = "finished"
  /\ Len(items) = 2
  /\ items[1].status = "finished"
  /\ items[2].status = "waiting"

\* Every satellite has at most one row, so at most one main guild.
OneMain ==
  \A k \in DOMAIN links, l \in DOMAIN links :
    links[k].satellite_id = links[l].satellite_id => k = l

\* C20: after any calls of Link.add and Link.remove a guild is the satellite
\* of at most one main guild; Link.add for a satellite of another main guild
\* raises ValueError and adds no row, and Link.add for a pair that is linked
\* returns the link and adds no row.
C20_OneMainPerSatellite ==
  [][/\ OneMain'
     /\ \A g \in Guilds, s \in Guilds :
          LinkAdd(g, s)
          => (/\ (\E k \in DOMAIN links :
                    links[k].satellite_id = s /\ links[k].guild_id # g)
                 => (links' = links /\ link_result'.out = "ValueError")
              /\ (\E k \in DOMAIN links :
                    links[k].satellite_id = s /\ links[k].guild_id = g)
                 => (links' = links /\ link_result'.out = "existing"))]_vars

\* Link.add has just been refused for a satellite of another guild, in a
\* table where one main guild has two satellites.
C20_Witness ==
  /\ link_result = [op |-> "add", out |-> "ValueError"]
  /\ \E k \in DOMAIN links, l \in DOMAIN links :
       k # l /\ links[k].guild_id = links[l].guild_id

\* C21: VerifyMapping.map(guild, username, domain) returns the guild's row
\* with exactly that username and domain if the table has it; otherwise the
\* guild's row with an empty username and that domain if it has it; otherwise
\* the guild's row with both empty if it has it; otherwise None.
C21_MapFallsBack ==
  [][\A g \in MapGuilds, u \in Usernames, d \in Domains :
       Map(g, u, d)
       => mapped'.out =
            IF VerifyMappingRow(g, u, d) \in mapping
            THEN VerifyMappingRow(g, u, d)
            ELSE IF VerifyMappingRow(g, "", d) \in mapping
            THEN VerifyMappingRow(g, "", d)
            ELSE IF VerifyMappingRow(g, "", "") \in mapping
            THEN VerifyMappingRow(g, "", "")
            ELSE None]_vars

\* map has fallen back to the domain default for a username the table has in
\* another spelling only, in a table that has a guild default as well.
C21_Witness ==
  /\ mapped.called /\ mapped.username = "a" /\ mapped.domain = "x"
  /\ mapped.out = VerifyMappingRow(mapped.guild_id, "", "x")
  /\ VerifyMappingRow(mapped.guild_id, "A", "x") \in mapping
  /\ VerifyMappingRow(mapped.guild_id, "", "") \in mapping

\* C22: the restore sequence grants no role and changes no overwrite for a
\* row before the row's end time: _reverify_user is past its sleep only when
\* the end time has come.
C22_NotBeforeEndTime ==
  rv.pc \in Restoring => items[rv.idx].end_time <= now

\* _reverify_user found the end time in the future, has slept, and has
\* returned the roles.
C22_Witness ==
  /\ rv.pc = "channels" /\ rv.wake > 0
  /\ items[rv.idx].roles_to_return # <<>>

\* The rows a tick at this time has to process: waiting, the end time less
\* than LOOKAHEAD seconds ahead, never checked or checked more than STALE
\* seconds ago.
Selected ==
  {i \in DOMAIN items :
     /\ items[i].status = "waiting"
     /\ items[i].end_time < now + LOOKAHEAD
     /\ items[i].last_check = NULL \/ items[i].last_check < now - STALE}

\* C23: a tick of the reverifier takes up exactly the rows that are waiting,
\* end within the lookahead and are unchecked or stale, each once, in
\* ascending order of their end times.
C23_TickSelects ==
  [][Reverifier
     => (/\ Range(queue') = Selected
         /\ Len(queue') = Cardinality(Selected)
         /\ \A k \in 1..(Len(queue') - 1) :
              items[queue'[k]].end_time <= items[queue'[k + 1]].end_time)]_vars

\* C24: a row whose guild could not be resolved is taken up again by a later
\* tick once its last_check is stale, and restored when the guild resolves by
\* then: such a row is among the rows get_items returns to the tick.
C24_GuildRetried ==
  \A i \in DOMAIN items :
    (/\ items[i].status = "guild_not_found"
     /\ items[i].last_check # NULL /\ items[i].last_check < now - STALE
     /\ items[i].end_time < now + LOOKAHEAD
     /\ guildUp)
    => i \in Range(get_items("waiting", now + LOOKAHEAD, now - STALE))

\* C25: when the member of the row the tick takes up is not in the guild any
\* more, the row gets the status member_left and a last_check, no role and no
\* overwrite is changed, and the tick goes on with its next row.
C25_MemberLeftMarked ==
  [][(/\ ReverifierItem
      /\ guildUp
      /\ items[Head(queue)].user_id \notin present)
     => (/\ items'[Head(queue)].status = "member_left"
         /\ items'[Head(queue)].last_check = now
         /\ held' = held /\ overw' = overw
         /\ loop' = "ready" /\ queue' = Tail(queue))]_vars

\* C26: an imposition that ends with its row does, for every channel of the
\* guild, exactly one of three things: a channel of the keep list the member
\* cannot read is granted and saved as one to remove; a channel outside the
\* keep list the member can read, by an overwrite or by its roles, is denied
\* and saved as one to return; any other channel is left as it is and saved
\* nowhere.
C26_EveryChannelSettled ==
  [][\A h \in Handlers :
       (UnverifyMemberFinish(h) /\ reply'.out = "done")
       => LET m == cmd[h].member
              keep == cmd[h].keep
              row == items'[Len(items')]
          IN \A c \in channels :
               IF c \in keep /\ ~CanRead(c, m)
               THEN /\ overw'[c][m] = "allow"
                    /\ c \in Range(row.channels_to_remove)
                    /\ c \notin Range(row.channels_to_return)
               ELSE IF c \notin keep /\ CanRead(c, m)
               THEN /\ overw'[c][m] = "deny"
                    /\ c \in Range(row.channels_to_return)
                    /\ c \notin Range(row.channels_to_remove)
               ELSE /\ overw'[c][m] = overw[c][m]
                    /\ c \notin Range(row.channels_to_return)
                    /\ c \notin Range(row.channels_to_remove)]_vars

\* C27: an imposition that has passed the waiting check and whose end time
\* is still ahead ends with a new waiting row that lists exactly the roles
\* taken, exactly the channels denied and exactly the channels granted.
C27_RowRecordsMutations ==
  [][\A h \in Handlers :
       (UnverifyMemberFinish(h) /\ ~AddRaises(cmd[h].member, cmd[h].end_time))
       => LET m == cmd[h].member
              row == items'[Len(items')]
          IN /\ Len(items') = Len(items) + 1
             /\ row.user_id = m /\ row.status = "waiting"
             /\ row.roles_to_return = cmd[h].removed
             /\ Range(row.channels_to_return)
                  = {c \in channels : overw'[c][m] # overw[c][m]
                                       /\ overw'[c][m] = "deny"}
             /\ Range(row.channels_to_remove)
                  = {c \in channels : overw'[c][m] # overw[c][m]
                                       /\ overw'[c][m] = "allow"}]_vars

\* C28: the restore sequence runs to its end at most once for a row, however
\* the reverifier's loop and the pardons interleave: it is only ever under
\* way on a row that is waiting, and a row it has finished is never touched
\* again.
C28_RestoredOnce ==
  [][/\ rv'.pc \in Restoring \cup {"sleep"}
          => items'[rv'.idx].status = "waiting"
     /\ \A i \in DOMAIN items :
          items[i].status = "finished" => items'[i] = items[i]]_vars

\* The loop has finished the member's first row after a pardon, and is
\* restoring the member's second row.
C28_Witness ==
  /\ rv.caller = "loop" /\ rv.pc \in Restoring /\ rv.idx = 2
  /\ items[1].status = "finished"
  /\ items[1].user_id = items[2].user_id
  /\ reply.out = "pardoned"

\* C29: a row becomes finished only in the step that follows the attempts, in
\* this order, to return the roles, to return the channels, to take the
\* temporary channels back, to take the unverify role away and to send the
\* direct message; a restore sequence that ends before that, by an exception
\* or by the task being cancelled, leaves the row waiting.
C29_FinishedLast ==
  [][/\ \A i \in DOMAIN items :
          (items[i].status # "finished" /\ items'[i].status = "finished")
          => (rv.pc = "dm" /\ rv.idx = i)
     /\ rv'.pc # rv.pc
          => (/\ rv'.pc = "channels" => rv.pc = "roles"
              /\ rv'.pc = "temp" => rv.pc = "channels"
              /\ rv'.pc = "role" => rv.pc = "temp"
              /\ rv'.pc = "dm" => rv.pc = "role")
     /\ (rv.pc \in Restoring /\ rv'.pc = "idle" /\ rv'.out # "finished")
          => items'[rv.idx].status = "waiting"]_vars

\* The task has been cancelled while a row was being restored, after the
\* loop had finished another row.
C29_Witness ==
  /\ rv.out = "cancelled" /\ loop = "cancelled"
  /\ items[rv.idx].status = "waiting"
  /\ \E i \in DOMAIN items : items[i].status = "finished"

\* C30: however the passes of the timer and of the voice-state events
\* interleave at their awaits, the category never holds more than one
\* unoccupied channel without a last_message of a kind.
C30_OneFreshPerKind ==
  \A kind \in {"std", "high"} : Cardinality(Fresh(voice, kind)) <= 1

\* C31: a sync pass deletes only channels that are empty and have a
\* last_message: a channel a pass deletes has no member and has been written
\* to, and is of the kind the pass is maintaining at that moment.
C31_DeletesOnlyAbandoned ==
  [][\A x \in Contexts :
       RemoveChannel(x)
       => \A c \in VoiceIds :
            (voice[c].there /\ ~voice'[c].there)
            => (/\ voice[c].members = 0
                /\ voice[c].used
                /\ voice[c].high = (sync[x].kind = "high"))]_vars

\* C32: in a guild without a VoiceSettings row, with a NULL category_id, or
\* whose configured category is gone, a run of sync_channels and a
\* voice-state event create and delete no channel, and leave no pass under
\* way that would.
C32_OnlyInConfiguredGuild ==
  [][(/\ ~settings.row \/ settings.category_id = 0 \/ ~category
      /\ \/ SyncChannels
         \/ \E c \in VoiceIds : Join(c) \/ Leave(c)
         \/ \E x \in Contexts : CreateChannel(x) \/ RemoveChannel(x))
     => /\ \A c \in VoiceIds : voice'[c].there = voice[c].there
        /\ \A x \in Contexts : sync'[x].pc = "idle"]_vars

\* A run of sync_channels has been skipped in a guild whose row has no
\* category_id, while a member sits in a channel of the category.
C32_Witness ==
  /\ settings.row /\ ~validate_settings
  /\ sync["timer"].out = "skipped"
  /\ \E c \in VoiceIds : voice[c].there /\ voice[c].members > 0

\* C33: a run of sync_channels that meets a VoiceSettings row whose guild
\* get_guild does not resolve skips the row without an exception: the task
\* stays ready for its next run.
C33_UnresolvedGuildSkipped ==
  [][(SyncChannels /\ ~guildUp)
     => /\ sync'["timer"].pc = "idle"
        /\ sync'["timer"].out # "raised"]_vars

\* A handler reaches _sync in this step, and _sync runs its sweep.
Sweeping ==
  /\ validate_settings /\ get_category
  /\ \/ SyncChannels /\ guildUp
     \/ CommandSync
     \/ \E c \in VoiceIds : Join(c) /\ voice[c].used

Stale(c) ==
  \E k \in DOMAIN locked :
     /\ locked[k].channel_id = c
     /\ \/ ~valid_guild(locked[k].guild_id)
        \/ ~get_channel(locked[k].guild_id, c, voice)

Marked(c) == \E k \in DOMAIN locked : locked[k].channel_id = c

\* C35: a LockedChannels row whose guild's voice settings have been removed,
\* or whose channel no longer exists, is eventually removed, the sync_channels
\* task running every 60 seconds.
C35_StaleRowRemoved ==
  \A c \in MarkChannels : Stale(c) ~> ~Marked(c)

\* C36: the handler run of a leave that empties a channel of the category
\* ends with the channel deleted and without a LockedChannels row for it; a
\* channel that keeps members is neither deleted nor unmarked.  (A move whose
\* pass is still under way has not ended its handler run.)
C36_LeaveDeletesAndUnmarks ==
  [][\A a \in VoiceIds :
       (/\ validate_settings /\ get_category
        /\ Leave(a) \/ \E b \in VoiceIds : Move(a, b)
        /\ ~(sync'["event"].pc # "idle" /\ sync'["event"].before = a))
       => IF voice[a].members = 1
          THEN ~voice'[a].there /\ ~Marked(a)'
          ELSE voice'[a].there /\ Marked(a)' = Marked(a)]_vars

\* C37: every join into a channel of the configured category re-runs sync
\* (a pass of the event is started, or has run to its end, in the handler
\* run), also a join into a channel without last_message, for which the
\* welcome message is due.
C37_JoinSyncs ==
  [][\A c \in VoiceIds :
       (Join(c) /\ validate_settings /\ get_category)
       => \/ sync'["event"].pc # "idle"
          \/ sync'["event"].runs # sync["event"].runs]_vars

\* C38: lock on a channel that is not locked leaves the channel with
\* view_channel=False for every role that has an overwrite on the category
\* (no role is in admin_role_cache before a lock has failed on it).
C38_LockHidesChannel ==
  [][\A c \in VoiceIds :
       (Lock(c) /\ ~is_locked(c))
       => \A r \in Roles :
            overwrites.category[r] # "none"
            => overwrites'.channel[c][r] = "deny"]_vars

\* C39: lock on a channel that is not locked makes is_locked true, unlock on
\* a locked channel makes it false, and lock on a locked channel or unlock on
\* a channel that is not locked is answered and changes neither the table
\* nor an overwrite.
C39_LockStateFollows ==
  [][\A c \in VoiceIds :
       /\ (Lock(c) /\ ~is_locked(c)) => is_locked(c)'
       /\ (Unlock(c) /\ is_locked(c)) => ~is_locked(c)'
       /\ (\/ Lock(c) /\ is_locked(c)
           \/ Unlock(c) /\ ~is_locked(c))
          => /\ answer'.out = "already"
             /\ locked' = locked
             /\ overwrites' = overwrites]_vars

====
